---- MODULE Spec2Model ----
(***************************************************************************)
(* The asynchronous, file-based StorageService of docai                    *)
(* (src/src/docai/storage/service.py) together with the part of the HTTP   *)
(* facade (src/src/docai/storage/api.py) that reads a stored file back.    *)
(*                                                                         *)
(* Every coroutine is cut at its awaits: one action is one filesystem      *)
(* effect (run by aiofiles in a worker thread) together with the           *)
(* synchronous code that follows it up to the next await.                  *)
(***************************************************************************)
EXTENDS Integers, Sequences, FiniteSets, TLC

\* ------------------------------------------------------------------ bounds
NumTasks == 2       \* concurrent callers
MaxEvents == 3      \* calls, I/O errors and task cancellations in one run
MaxPage == 1        \* page numbers are 0..MaxPage
ContentLen == 2     \* length of the non-empty byte contents
LOCK_STRIPES == 2   \* STORAGE_LOCK_STRIPES (config.py:22, default 1024)

Tasks == 1..NumTasks
PageNumbers == 0..MaxPage

\* Document ids are strings, modelled as tuples of one-character strings.
\* "a_p1" is a path-safe id that starts with "a" followed by "_p".
DocA == <<"a">>
DocAP1 == <<"a", "_", "p", "1">>
DocIds == {DocA, DocAP1}

\* Byte contents: the empty one and two of length ContentLen that share no
\* byte, so that a proper part or a mixture of them is neither of them.
Low == [i \in 1..ContentLen |-> i]
High == [i \in 1..ContentLen |-> ContentLen + i]
Contents == {<<>>, Low, High}

\* Values hash(doc_id) takes: Python's str hash is fixed for one process and
\* arbitrary across processes. Both values lie outside 0..LOCK_STRIPES-1, so
\* the modulo decides the stripe: -1 is the last stripe, LOCK_STRIPES is 0.
HashValues == {-1, LOCK_STRIPES}

\* The stripes are interchangeable, so the hash of one id is fixed: the
\* other id shares its stripe or has another.
Hashes == {h \in [DocIds -> HashValues] : h[DocA] = LOCK_STRIPES}

VARIABLES
    hashOf,   \* hash(doc_id) of this process
    locks,    \* self._locks: per stripe, asyncio.Lock's _locked and _waiters
    files,    \* the files under base_path: path -> bytes on disk
    task,     \* per caller: the operation it runs and where it stands
    ops,      \* operations started so far
    faults,   \* I/O errors and cancellations injected so far
    \* History, kept for the properties only; no action's guard reads it.
    ref,      \* the store after applying, one at a time, the mutating calls
              \* in the order in which they acquired their lock
    lastAcq,  \* per doc_id: the caller whose mutating call acquired last
    lastDone, \* per doc_id: the mutating call that ended last
    saved     \* the paths a save was ever called for

vars == <<hashOf, locks, files, task, ops, faults, ref, lastAcq, lastDone, saved>>
history == <<ref, lastAcq, lastDone, saved>>

\* ------------------------------------------------------------- pure helpers
StartsWith(s, p) == Len(s) >= Len(p) /\ SubSeq(s, 1, Len(p)) = p
EndsWith(s, p) == Len(s) >= Len(p) /\ SubSeq(s, Len(s) - Len(p) + 1, Len(s)) = p
IsPrefix(p, s) == StartsWith(s, p)

DigitChars == <<"0", "1", "2", "3", "4", "5", "6", "7", "8", "9">>

\* str(n) of a non-negative integer, as the f-strings format page_number.
RECURSIVE Str(_)
Str(n) == IF n < 10 THEN <<DigitChars[n + 1]>>
          ELSE Str(n \div 10) \o <<DigitChars[(n % 10) + 1]>>

pdf_name(doc_id) == doc_id \o <<".", "p", "d", "f">>

\* A variant of image_name that leaves out the "p" before the page number.
image_name_plain(doc_id, page_number) ==
    doc_id \o <<"_">> \o Str(page_number) \o <<".", "j", "p", "g">>

\* A variant of image_name that leaves out the "_p" between the id and the
\* page number.
image_name_joined(doc_id, page_number) ==
    doc_id \o Str(page_number) \o <<".", "j", "p", "g">>

image_name(doc_id, page_number) ==
    doc_id \o <<"_", "p">> \o Str(page_number) \o <<".", "j", "p", "g">>

pdf_path(doc_id) == [dir |-> "pdfs", name |-> pdf_name(doc_id)]
image_path(doc_id, page_number) ==
    [dir |-> "images", name |-> image_name(doc_id, page_number)]

\* A variant of image_matches that looks for the suffix ".jpeg".
image_matches_jpeg(doc_id, name) ==
    /\ StartsWith(name, doc_id \o <<"_", "p">>)
    /\ EndsWith(name, <<".", "j", "p", "e", "g">>)

\* name.startswith(f"{doc_id}_p") and name.endswith(".jpg")
image_matches(doc_id, name) ==
    /\ StartsWith(name, doc_id \o <<"_", "p">>)
    /\ EndsWith(name, <<".", "j", "p", "g">>)

\* The name has no separator: joined to a directory it is an entry of it.
IsEntryName(name) == \A k \in 1..Len(name) : name[k] # "/"

\* aiofiles.os.listdir(image_dir): the names of the entries of the directory.
listdir_images(fs) ==
    {p.name : p \in {q \in DOMAIN fs : q.dir = "images" /\ IsEntryName(q.name)}}

\* A variant of get_lock that picks the stripe by the length of the id.
get_lock_len(doc_id) == Len(doc_id) % LOCK_STRIPES

\* hash(doc_id) % self._num_stripes
get_lock(doc_id) == hashOf[doc_id] % LOCK_STRIPES

\* ------------------------------------------------------------ file system
Exists(fs, p) == p \in DOMAIN fs

Put(fs, p, data) == [q \in DOMAIN fs \cup {p} |-> IF q = p THEN data ELSE fs[q]]

Unlink(fs, p) == [q \in DOMAIN fs \ {p} |-> fs[q]]

\* A variant of OpenWb that keeps the bytes of the file that is there, as
\* mode "r+b" on an existing file would.
OpenKeep(fs, p) == IF Exists(fs, p) THEN fs ELSE Put(fs, p, <<>>)

\* open(path, "wb"): creates the file, or truncates the one that is there.
OpenWb(fs, p) == Put(fs, p, <<>>)

Max(a, b) == IF a >= b THEN a ELSE b

\* pwrite: bytes land at offset off; a gap left by a truncation reads as 0.
WriteAt(data, off, bytes) ==
    [i \in 1..Max(Len(data), off + Len(bytes)) |->
        IF i > off /\ i <= off + Len(bytes) THEN bytes[i - off]
        ELSE IF i <= Len(data) THEN data[i]
        ELSE 0]

\* A write through an open handle reaches the file at the path only while
\* the handle's file is still linked there.
HandleWrite(fs, p, attached, off, bytes) ==
    IF attached /\ Exists(fs, p) /\ bytes # <<>>
    THEN Put(fs, p, WriteAt(fs[p], off, bytes))
    ELSE fs

\* ------------------------------------------------------------------ tasks
NoPath == [dir |-> "", name |-> <<>>]
Unknown == [kind |-> "unknown", data |-> <<>>]
NoFile == [exists |-> FALSE, data |-> <<>>]

\* A caller's record. op .. served and bytes are the coroutine's locals and
\* its outcome; waited, before, saw and expect are history for the
\* properties.
IdleTask ==
    [op |-> "none", doc_id |-> <<>>, page_number |-> 0, content |-> <<>>,
     path |-> NoPath, pc |-> "idle", result |-> "none", flushed |-> 0,
     attached |-> FALSE, entries |-> {}, served |-> "none", bytes |-> <<>>,
     waited |-> FALSE, before |-> NoFile, saw |-> "none", expect |-> Unknown]

SaveOps == {"save_pdf", "save_image"}
GetOps == {"get_pdf", "get_image"}
MutatingOps == SaveOps \cup {"delete_document"}

\* Positions inside the `async with lock` block.
CriticalPcs == {"open", "write", "close", "exists", "rmpdf", "list", "rmimg"}

InFlight(r) == r.pc \notin {"idle", "done"}

FirstPc(op) == IF op \in SaveOps THEN "open" ELSE "exists"

SaveError(op) == IF op = "save_pdf" THEN "SavePDFError" ELSE "SaveImageError"

NotFoundError(op) ==
    IF op = "get_pdf" THEN "PDFNotFoundError" ELSE "ImageNotFoundError"

\* The environment has events left to spend.
Budget == ops + faults < MaxEvents

\* A call is made by the first caller that runs nothing: which coroutine
\* object carries a call makes no difference to the service.
CanCall(t) ==
    /\ ~InFlight(task[t])
    /\ Budget
    /\ \A u \in Tasks : u < t => InFlight(task[u])

\* ---------------------------------------------------------------- history
\* The blobs of a document: its PDF and its page images.
Blobs(doc_id) ==
    {pdf_path(doc_id)} \cup {image_path(doc_id, n) : n \in PageNumbers}

\* One mutating call applied to a store on its own.
Apply(store, r) ==
    IF r.op \in SaveOps THEN Put(store, r.path, r.content)
    ELSE [q \in DOMAIN store \ Blobs(r.doc_id) |-> store[q]]

FileState(fs, p) ==
    IF Exists(fs, p) THEN [exists |-> TRUE, data |-> fs[p]] ELSE NoFile

\* What is recorded when the mutating call r takes its lock.
Acquired(t, r) ==
    /\ ref' = Apply(ref, r)
    /\ lastAcq' = [lastAcq EXCEPT ![r.doc_id] = t]

Ended(r, outcome) ==
    [kind |-> IF outcome # "ok" THEN "failed"
              ELSE IF r.op \in SaveOps THEN "saved" ELSE "deleted",
     path |-> r.path, content |-> r.content]

MutatingInFlight(doc_id) ==
    \E u \in Tasks : /\ task[u].op \in MutatingOps
                     /\ task[u].doc_id = doc_id
                     /\ InFlight(task[u])

\* What a get called now must find, as far as the calls before it tell.
Expectation(doc_id, p) ==
    IF p \notin saved THEN [kind |-> "never", data |-> <<>>]
    ELSE IF MutatingInFlight(doc_id) THEN Unknown
    ELSE IF lastDone[doc_id].kind = "deleted"
        THEN [kind |-> "deleted", data |-> <<>>]
    ELSE IF lastDone[doc_id].kind = "saved" /\ lastDone[doc_id].path = p
        THEN [kind |-> "saved", data |-> lastDone[doc_id].content]
    ELSE Unknown

\* A mutating call r on a get's doc_id while the get runs: the get is no
\* longer one that follows the earlier calls with nothing in between.
Disturb(tk, r) ==
    [u \in Tasks |->
        IF /\ tk[u].op \in GetOps
           /\ InFlight(tk[u])
           /\ tk[u].doc_id = r.doc_id
           /\ (tk[u].expect.kind # "never" \/ tk[u].path = r.path)
        THEN [tk[u] EXCEPT !.expect = Unknown]
        ELSE tk[u]]

\* ------------------------------------------------------------ asyncio.Lock
\* A variant of LockFree that leaves out the test of _locked.
LockUnchecked(l) == l.waiters = <<>>

\* A variant of LockFree for one lock shared by all stripes: no stripe's
\* lock may be held.
LockNoneHeld(l) ==
    /\ \A i \in DOMAIN locks : ~locks[i].locked
    /\ l.waiters = <<>>

\* Lock.acquire takes the lock at once when it is free and nobody waits.
LockFree(l) == ~l.locked /\ l.waiters = <<>>

\* The record of a call that holds its lock and stands at its first await.
\* before: the file a save is about to write, as it is now; for a delete,
\* whether any blob of the document is stored now.
Inside(r) ==
    [r EXCEPT !.pc = FirstPc(r.op),
              !.before = IF r.op \in SaveOps THEN FileState(files, r.path)
                         ELSE [exists |-> \E p \in Blobs(r.doc_id) : Exists(files, p),
                               data |-> <<>>]]

\* A variant of Enter that takes the free lock and then asks for it again,
\* as a second `async with lock` nested in the first would.
EnterAgain(t, r) ==
    LET i == get_lock(r.doc_id) IN
    /\ locks' = [locks EXCEPT ![i].locked = TRUE, ![i].waiters = Append(@, t)]
    /\ task' = [Disturb(task, r) EXCEPT
                   ![t] = [r EXCEPT !.pc = "wait", !.waited = TRUE]]
    /\ UNCHANGED <<ref, lastAcq>>

\* `async with lock`, up to the first await inside or the wait for the lock.
Enter(t, r) ==
    LET i == get_lock(r.doc_id) IN
    IF LockFree(locks[i])
    THEN /\ locks' = [locks EXCEPT ![i].locked = TRUE]
         /\ task' = [Disturb(task, r) EXCEPT ![t] = Inside(r)]
         /\ Acquired(t, r)
    ELSE /\ locks' = [locks EXCEPT ![i].waiters = Append(@, t)]
         /\ task' = [Disturb(task, r) EXCEPT
                        ![t] = [r EXCEPT !.pc = "wait", !.waited = TRUE]]
         /\ UNCHANGED <<ref, lastAcq>>

\* A variant of ExitLock that releases on a normal return only, as a
\* release written after the block instead of `async with` would.
ExitLockOnReturn(i, outcome) ==
    IF outcome = "ok" THEN [locks EXCEPT ![i].locked = FALSE] ELSE locks

\* Lock.release, at the exit of the `async with lock` block, whatever the
\* outcome (return, exception, cancellation).
ExitLock(i, outcome) == [locks EXCEPT ![i].locked = FALSE]

\* The coroutine has ended: its handle and its directory listing are gone.
Finished(r, outcome) ==
    [r EXCEPT !.pc = "done", !.result = outcome, !.flushed = 0,
              !.attached = FALSE, !.entries = {},
              !.before = IF r.op \in SaveOps THEN NoFile ELSE @]

\* The task leaves the `async with lock` block with the given outcome.
Leave(t, outcome) ==
    /\ locks' = ExitLock(get_lock(task[t].doc_id), outcome)
    /\ task' = [task EXCEPT ![t] = Finished(@, outcome)]
    /\ lastDone' = [lastDone EXCEPT ![task[t].doc_id] = Ended(task[t], outcome)]

\* A variant of Wake that resumes the first waiter while the lock is held.
WakeEarly(t) ==
    LET i == get_lock(task[t].doc_id) IN
    /\ task[t].pc = "wait"
    /\ locks[i].waiters # <<>>
    /\ Head(locks[i].waiters) = t
    /\ locks' = [locks EXCEPT ![i].locked = TRUE, ![i].waiters = Tail(@)]
    /\ task' = [task EXCEPT ![t] = Inside(@)]
    /\ Acquired(t, task[t])
    /\ UNCHANGED <<hashOf, files, ops, faults, lastDone, saved>>

\* The first waiter of a released lock resumes and takes the lock.
Wake(t) ==
    LET i == get_lock(task[t].doc_id) IN
    /\ task[t].pc = "wait"
    /\ ~locks[i].locked
    /\ locks[i].waiters # <<>>
    /\ Head(locks[i].waiters) = t
    /\ locks' = [locks EXCEPT ![i].locked = TRUE, ![i].waiters = Tail(@)]
    /\ task' = [task EXCEPT ![t] = Inside(@)]
    /\ Acquired(t, task[t])
    /\ UNCHANGED <<hashOf, files, ops, faults, lastDone, saved>>

\* ----------------------------------------------------- save_pdf, save_image
save_pdf(t, doc_id, pdf_content) ==
    LET r == [IdleTask EXCEPT !.op = "save_pdf", !.doc_id = doc_id,
                              !.content = pdf_content,
                              !.path = pdf_path(doc_id)] IN
    /\ CanCall(t)
    /\ Enter(t, r)
    /\ ops' = ops + 1
    /\ saved' = saved \cup {r.path}
    /\ UNCHANGED <<hashOf, files, faults, lastDone>>

save_image(t, doc_id, page_number, image_content) ==
    LET r == [IdleTask EXCEPT !.op = "save_image", !.doc_id = doc_id,
                              !.page_number = page_number,
                              !.content = image_content,
                              !.path = image_path(doc_id, page_number)] IN
    /\ CanCall(t)
    /\ Enter(t, r)
    /\ ops' = ops + 1
    /\ saved' = saved \cup {r.path}
    /\ UNCHANGED <<hashOf, files, faults, lastDone>>

\* aiofiles.open(file_path, "wb")
SaveOpen(t) ==
    /\ task[t].op \in SaveOps
    /\ task[t].pc = "open"
    /\ files' = OpenWb(files, task[t].path)
    /\ task' = [task EXCEPT ![t].pc = "write", ![t].attached = TRUE]
    /\ UNCHANGED <<hashOf, locks, ops, faults, history>>

\* f.write(content): the bytes enter the buffered writer, which has passed
\* any prefix of them on to the file when the call returns.
SaveWrite(t) ==
    /\ task[t].op \in SaveOps
    /\ task[t].pc = "write"
    /\ \E k \in 0..Len(task[t].content) :
        /\ files' = HandleWrite(files, task[t].path, task[t].attached, 0,
                                SubSeq(task[t].content, 1, k))
        /\ task' = [task EXCEPT ![t].pc = "close", ![t].flushed = k]
    /\ UNCHANGED <<hashOf, locks, ops, faults, history>>

\* A variant of SaveClose that closes without flushing the buffered rest.
SaveCloseUnflushed(t) ==
    /\ task[t].op \in SaveOps
    /\ task[t].pc = "close"
    /\ Leave(t, "ok")
    /\ UNCHANGED <<hashOf, files, ops, faults, ref, lastAcq, saved>>

\* The exit of `async with aiofiles.open(...)` flushes the rest and closes;
\* then file_path is returned and the lock released.
SaveClose(t) ==
    /\ task[t].op \in SaveOps
    /\ task[t].pc = "close"
    /\ files' = HandleWrite(files, task[t].path, task[t].attached,
                            task[t].flushed,
                            SubSeq(task[t].content, task[t].flushed + 1,
                                   Len(task[t].content)))
    /\ Leave(t, "ok")
    /\ UNCHANGED <<hashOf, ops, faults, ref, lastAcq, saved>>

\* A variant of SaveFail that starts the write again after the error.
SaveFailRetry(t) ==
    /\ task[t].op \in SaveOps
    /\ task[t].pc \in {"open", "write", "close"}
    /\ Budget
    /\ faults' = faults + 1
    /\ task' = [task EXCEPT ![t].pc = "open", ![t].flushed = 0,
                            ![t].attached = FALSE]
    /\ UNCHANGED <<hashOf, locks, files, ops, history>>

\* A variant of SaveFail that removes the file it was writing to.
SaveFailUnlink(t) ==
    /\ task[t].op \in SaveOps
    /\ task[t].pc \in {"open", "write", "close"}
    /\ Budget
    /\ faults' = faults + 1
    /\ files' = IF Exists(files, task[t].path)
                THEN Unlink(files, task[t].path) ELSE files
    /\ Leave(t, SaveError(task[t].op))
    /\ UNCHANGED <<hashOf, ops, ref, lastAcq, saved>>

\* open, write or close raises: `except Exception` turns it into the save
\* error; what reached the file stays there.
SaveFail(t) ==
    /\ task[t].op \in SaveOps
    /\ task[t].pc \in {"open", "write", "close"}
    /\ Budget
    /\ faults' = faults + 1
    /\ Leave(t, SaveError(task[t].op))
    /\ UNCHANGED <<hashOf, files, ops, ref, lastAcq, saved>>

\* ------------------------------------------------------- delete_document
delete_document(t, doc_id) ==
    LET r == [IdleTask EXCEPT !.op = "delete_document", !.doc_id = doc_id,
                              !.path = pdf_path(doc_id)] IN
    /\ CanCall(t)
    /\ Enter(t, r)
    /\ ops' = ops + 1
    /\ UNCHANGED <<hashOf, files, faults, lastDone, saved>>

\* aiofiles.os.path.exists(pdf_file)
DeleteExists(t) ==
    /\ task[t].op = "delete_document"
    /\ task[t].pc = "exists"
    /\ task' = [task EXCEPT ![t].pc =
                    IF Exists(files, task[t].path) THEN "rmpdf" ELSE "list"]
    /\ UNCHANGED <<hashOf, locks, files, ops, faults, history>>

\* Every handle open on the file at p loses its link to the path.
Detach(tk, p) ==
    [u \in Tasks |->
        IF tk[u].op \in SaveOps /\ tk[u].pc \in {"write", "close"}
           /\ tk[u].path = p
        THEN [tk[u] EXCEPT !.attached = FALSE]
        ELSE tk[u]]

\* aiofiles.os.remove(pdf_file)
DeleteRemovePdf(t) ==
    LET p == task[t].path IN
    /\ task[t].op = "delete_document"
    /\ task[t].pc = "rmpdf"
    /\ IF Exists(files, p)
       THEN /\ files' = Unlink(files, p)
            /\ task' = [Detach(task, p) EXCEPT ![t].pc = "list"]
            /\ UNCHANGED <<locks, lastDone>>
       ELSE /\ Leave(t, "DeleteDocumentError")
            /\ UNCHANGED files
    /\ UNCHANGED <<hashOf, ops, faults, ref, lastAcq, saved>>

\* aiofiles.os.listdir(image_dir); the loop keeps the names that match.
DeleteList(t) ==
    LET found == {n \in listdir_images(files) : image_matches(task[t].doc_id, n)} IN
    /\ task[t].op = "delete_document"
    /\ task[t].pc = "list"
    /\ IF found = {}
       THEN Leave(t, "ok")
       ELSE /\ task' = [task EXCEPT ![t].pc = "rmimg", ![t].entries = found]
            /\ UNCHANGED <<locks, lastDone>>
    /\ UNCHANGED <<hashOf, files, ops, faults, ref, lastAcq, saved>>

\* aiofiles.os.remove(img_path) of the next matching entry; listdir's order
\* is arbitrary. A file that is gone raises FileNotFoundError.
DeleteRemoveImage(t) ==
    /\ task[t].op = "delete_document"
    /\ task[t].pc = "rmimg"
    /\ \E name \in task[t].entries :
        LET p == [dir |-> "images", name |-> name]
            rest == task[t].entries \ {name} IN
        IF Exists(files, p)
        THEN /\ files' = Unlink(files, p)
             /\ IF rest = {}
                THEN /\ locks' = ExitLock(get_lock(task[t].doc_id), "ok")
                     /\ task' = [Detach(task, p) EXCEPT
                                    ![t] = Finished(@, "ok")]
                     /\ lastDone' = [lastDone EXCEPT ![task[t].doc_id] =
                                        Ended(task[t], "ok")]
                ELSE /\ task' = [Detach(task, p) EXCEPT ![t].entries = rest]
                     /\ UNCHANGED <<locks, lastDone>>
        ELSE /\ Leave(t, "DeleteDocumentError")
             /\ UNCHANGED files
    /\ UNCHANGED <<hashOf, ops, faults, ref, lastAcq, saved>>

\* A variant of DeleteFail that goes on with the rest after the error, as a
\* best-effort deletion would.
DeleteFailContinue(t) ==
    /\ task[t].op = "delete_document"
    /\ task[t].pc \in {"rmpdf", "list", "rmimg"}
    /\ Budget
    /\ faults' = faults + 1
    /\ IF task[t].pc = "rmpdf"
       THEN /\ task' = [task EXCEPT ![t].pc = "list"]
            /\ UNCHANGED <<locks, lastDone>>
       ELSE Leave(t, "DeleteDocumentError")
    /\ UNCHANGED <<hashOf, files, ops, ref, lastAcq, saved>>

\* remove or listdir raises: DeleteDocumentError at the first error.
DeleteFail(t) ==
    /\ task[t].op = "delete_document"
    /\ task[t].pc \in {"rmpdf", "list", "rmimg"}
    /\ Budget
    /\ faults' = faults + 1
    /\ Leave(t, "DeleteDocumentError")
    /\ UNCHANGED <<hashOf, files, ops, ref, lastAcq, saved>>

\* ------------------------------------------- get_pdf_path, get_image_path
get_pdf_path(t, doc_id) ==
    /\ CanCall(t)
    /\ task' = [task EXCEPT ![t] =
                    [IdleTask EXCEPT
                        !.op = "get_pdf", !.doc_id = doc_id,
                        !.path = pdf_path(doc_id), !.pc = "stat",
                        !.expect = Expectation(doc_id, pdf_path(doc_id))]]
    /\ ops' = ops + 1
    /\ UNCHANGED <<hashOf, locks, files, faults, history>>

get_image_path(t, doc_id, page_number) ==
    /\ CanCall(t)
    /\ task' = [task EXCEPT ![t] =
                    [IdleTask EXCEPT
                        !.op = "get_image", !.doc_id = doc_id,
                        !.page_number = page_number,
                        !.path = image_path(doc_id, page_number),
                        !.pc = "stat",
                        !.expect = Expectation(doc_id,
                                       image_path(doc_id, page_number))]]
    /\ ops' = ops + 1
    /\ UNCHANGED <<hashOf, locks, files, faults, history>>

\* A variant of path_exists that finds every path.
path_always(fs, p) == TRUE

\* aiofiles.os.path.exists(file_path)
path_exists(fs, p) == Exists(fs, p)

\* A variant of GetExists that runs the check only while the lock of the
\* doc_id's stripe is free, as a get under the stripe lock would.
GetExistsLocked(t) ==
    /\ task[t].op \in GetOps
    /\ task[t].pc = "stat"
    /\ ~locks[get_lock(task[t].doc_id)].locked
    /\ task' = [task EXCEPT ![t] =
                    IF path_exists(files, task[t].path)
                    THEN [@ EXCEPT !.pc = "read", !.result = "ok"]
                    ELSE [@ EXCEPT !.pc = "done",
                                   !.result = NotFoundError(task[t].op),
                                   !.served = "404"]]
    /\ UNCHANGED <<hashOf, locks, files, ops, faults, history>>

\* The existence check of a get: the path, or the not-found error.
GetExists(t) ==
    /\ task[t].op \in GetOps
    /\ task[t].pc = "stat"
    /\ task' = [task EXCEPT ![t] =
                    IF path_exists(files, task[t].path)
                    THEN [@ EXCEPT !.pc = "read", !.result = "ok"]
                    ELSE [@ EXCEPT !.pc = "done",
                                   !.result = NotFoundError(task[t].op),
                                   !.served = "404"]]
    /\ UNCHANGED <<hashOf, locks, files, ops, faults, history>>

\* The saves that hold their lock on the path p.
Writers(p) ==
    {w \in Tasks : /\ task[w].op \in SaveOps
                   /\ task[w].pc \in {"open", "write", "close"}
                   /\ task[w].path = p}

\* What the bytes read at p are, next to the save w that is under way:
\* the file as it was before w, all of w's content, a proper part of it,
\* or none of these.
Seen(bytes, w) ==
    IF task[w].before.exists /\ bytes = task[w].before.data THEN "before"
    ELSE IF bytes = task[w].content THEN "after"
    ELSE IF IsPrefix(bytes, task[w].content) THEN "partial"
    ELSE "corrupt"

View(p, bytes) ==
    IF Writers(p) = {} THEN "quiet"
    ELSE IF \E w \in Writers(p) : Seen(bytes, w) \in {"before", "after"}
        THEN "whole"
    ELSE IF \E w \in Writers(p) : Seen(bytes, w) = "partial" THEN "partial"
    ELSE "corrupt"

\* The caller reads the returned path (api.py: FileResponse(path=...)); a
\* file that is no longer there is an error of the response, not a 404.
ReadFile(t) ==
    LET p == task[t].path IN
    /\ task[t].op \in GetOps
    /\ task[t].pc = "read"
    /\ task' = [task EXCEPT ![t] =
                    IF Exists(files, p)
                    THEN [@ EXCEPT !.pc = "done", !.served = "200",
                                   !.bytes = files[p],
                                   !.saw = View(p, files[p])]
                    ELSE [@ EXCEPT !.pc = "done", !.served = "500"]]
    /\ UNCHANGED <<hashOf, locks, files, ops, faults, history>>

\* ------------------------------------------------------------ cancellation
\* The calling task is cancelled at its current await: CancelledError leaves
\* the coroutine through every `async with`, or through Lock.acquire.
Cancel(t) ==
    LET i == get_lock(task[t].doc_id) IN
    /\ InFlight(task[t])
    /\ Budget
    /\ faults' = faults + 1
    /\ locks' = IF task[t].pc = "wait"
                THEN [locks EXCEPT ![i].waiters =
                        SelectSeq(@, LAMBDA u : u # t)]
                ELSE IF task[t].pc \in CriticalPcs THEN ExitLock(i, "cancelled")
                ELSE locks
    /\ task' = [task EXCEPT ![t] = Finished(@, "cancelled")]
    /\ lastDone' = IF task[t].pc \in CriticalPcs
                   THEN [lastDone EXCEPT ![task[t].doc_id] =
                            Ended(task[t], "cancelled")]
                   ELSE lastDone
    /\ UNCHANGED <<hashOf, files, ops, ref, lastAcq, saved>>

\* ------------------------------------------------------------ specification
\* StorageService.__init__ on an empty base directory.
Init ==
    /\ hashOf \in Hashes
    /\ locks = [i \in 0..(LOCK_STRIPES - 1) |-> [locked |-> FALSE, waiters |-> <<>>]]
    /\ files = <<>>
    /\ task = [t \in Tasks |-> IdleTask]
    /\ ops = 0
    /\ faults = 0
    /\ ref = <<>>
    /\ lastAcq = [d \in DocIds |-> 0]
    /\ lastDone = [d \in DocIds |-> [kind |-> "none", path |-> NoPath, content |-> <<>>]]
    /\ saved = {}

Next ==
    \E t \in Tasks :
        \/ \E d \in DocIds, c \in Contents : save_pdf(t, d, c)
        \/ \E d \in DocIds, n \in PageNumbers, c \in Contents : save_image(t, d, n, c)
        \/ \E d \in DocIds : delete_document(t, d)
        \/ \E d \in DocIds : get_pdf_path(t, d)
        \/ \E d \in DocIds, n \in PageNumbers : get_image_path(t, d, n)
        \/ Wake(t)
        \/ SaveOpen(t)
        \/ SaveWrite(t)
        \/ SaveClose(t)
        \/ SaveFail(t)
        \/ DeleteExists(t)
        \/ DeleteRemovePdf(t)
        \/ DeleteList(t)
        \/ DeleteRemoveImage(t)
        \/ DeleteFail(t)
        \/ GetExists(t)
        \/ ReadFile(t)
        \/ Cancel(t)

Spec == Init /\ [][Next]_vars

\* A base directory that holds the PDF and two page images of one document,
\* left there by an earlier process.
StoredFiles ==
    Put(Put(Put(<<>>, pdf_path(DocA), Low), image_path(DocA, 0), Low),
        image_path(DocA, MaxPage), High)

\* StorageService.__init__ on that base directory: the directories exist
\* already (mkdir with exist_ok) and the locks are new.
InitStored ==
    /\ hashOf \in Hashes
    /\ locks = [i \in 0..(LOCK_STRIPES - 1) |-> [locked |-> FALSE, waiters |-> <<>>]]
    /\ files = StoredFiles
    /\ task = [t \in Tasks |-> IdleTask]
    /\ ops = 0
    /\ faults = 0
    /\ ref = StoredFiles
    /\ lastAcq = [d \in DocIds |-> 0]
    /\ lastDone = [d \in DocIds |-> [kind |-> "none", path |-> NoPath, content |-> <<>>]]
    /\ saved = DOMAIN StoredFiles

SpecStored == InitStored /\ [][Next]_vars

\* ------------------------------------------------------------- properties
Stripes == 0..(LOCK_STRIPES - 1)

\* The task is between acquiring and releasing its stripe lock.
InCritical(t) == task[t].op \in MutatingOps /\ task[t].pc \in CriticalPcs

StripeOf(t) == get_lock(task[t].doc_id)

\* C1: at any moment at most one save_pdf, save_image or delete_document
\* call is inside its critical section for a given stripe index.
C1_OnePerStripe ==
    \A t, u \in Tasks :
        (t # u /\ InCritical(t) /\ InCritical(u)) => StripeOf(t) # StripeOf(u)

\* One call holds a stripe while a call on another doc_id of the same
\* stripe waits for it.
C1_Witness ==
    \E t, u \in Tasks :
        /\ InCritical(t)
        /\ task[u].pc = "wait"
        /\ StripeOf(t) = StripeOf(u)
        /\ task[t].doc_id # task[u].doc_id

\* No mutating call on doc_id is in flight.
Quiet(doc_id) == ~MutatingInFlight(doc_id)

\* No mutating call on another doc_id has acquired a lock so far.
OnlyDoc(doc_id) == \A e \in DocIds \ {doc_id} : lastAcq[e] = 0

\* Two finished save_pdf calls of one doc_id with different contents, one
\* of which ended the last mutating call on that doc_id.
SavedBoth(t, u) ==
    /\ t # u
    /\ task[t].op = "save_pdf" /\ task[u].op = "save_pdf"
    /\ task[t].doc_id = task[u].doc_id
    /\ task[t].pc = "done" /\ task[u].pc = "done"
    /\ task[t].result = "ok" /\ task[u].result = "ok"
    /\ task[t].content # task[u].content
    /\ Quiet(task[t].doc_id)
    /\ lastDone[task[t].doc_id].kind = "saved"
    /\ lastDone[task[t].doc_id].content \in {task[t].content, task[u].content}

\* C2: after two concurrent save_pdf calls of one doc_id with different
\* contents have both completed, the stored PDF is exactly one of the two
\* contents, and both calls returned the same path.
C2_OneOfTheTwo ==
    \A t, u \in Tasks :
        SavedBoth(t, u) =>
            /\ task[t].path = task[u].path
            /\ Exists(files, task[t].path)
            /\ files[task[t].path] \in {task[t].content, task[u].content}

\* Both saves are done, the second one had to wait for the first, neither
\* content is empty, and the file holds the content of the second.
C2_Witness ==
    \E t, u \in Tasks :
        /\ SavedBoth(t, u)
        /\ task[u].waited
        /\ task[t].content # <<>> /\ task[u].content # <<>>
        /\ files[task[u].path] = task[u].content

\* C3: once the concurrent save_pdf, save_image and delete_document calls
\* on one doc_id have all completed, every blob of the doc_id is as in the
\* store obtained by applying the calls one at a time in the order in which
\* they acquired the lock.
C3_LockOrder ==
    \A d \in DocIds :
        (lastAcq[d] # 0 /\ OnlyDoc(d) /\ Quiet(d) /\ faults = 0) =>
            \A p \in Blobs(d) : FileState(files, p) = FileState(ref, p)

\* A delete and a save of one image ran concurrently; the save waited,
\* acquired the lock last, and its content is what is stored.
C3_Witness ==
    \E t, u \in Tasks :
        /\ task[t].op = "delete_document" /\ task[u].op = "save_image"
        /\ task[t].doc_id = task[u].doc_id
        /\ task[t].pc = "done" /\ task[u].pc = "done"
        /\ task[t].before.exists
        /\ task[u].waited
        /\ lastAcq[task[u].doc_id] = u
        /\ OnlyDoc(task[u].doc_id) /\ faults = 0
        /\ FileState(files, task[u].path) =
               [exists |-> TRUE, data |-> task[u].content]

C5_HeldOnlyInside ==
    \A i \in Stripes :
        locks[i].locked => \E t \in Tasks : InCritical(t) /\ StripeOf(t) = i

\* A call was cancelled inside its critical section and no lock is held.
C5_Witness ==
    /\ \E t \in Tasks :
        /\ task[t].pc = "done"
        /\ task[t].result = "cancelled"
        /\ lastDone[task[t].doc_id] = Ended(task[t], "cancelled")
    /\ \A i \in Stripes : ~locks[i].locked

\* A get that ran to its end.
GetDone(t) ==
    /\ task[t].op \in GetOps
    /\ task[t].pc = "done"
    /\ task[t].result # "cancelled"

\* C6: a get of a stored blob that runs concurrently with delete_document
\* of the same doc_id yields the saved bytes or not-found (404), never any
\* other failure.
C6_BytesOrNotFound ==
    \A t \in Tasks :
        (GetDone(t) /\ OnlyDoc(task[t].doc_id) /\ faults = 0) =>
            task[t].served \in {"200", "404"}

\* C7: a get that follows a completed save of the same blob, with no other
\* operation on that doc_id in between, returns the path, and reading it
\* yields exactly the saved content.
C7_RoundTrip ==
    \A t \in Tasks :
        (GetDone(t) /\ task[t].expect.kind = "saved") =>
            /\ task[t].result = "ok"
            /\ task[t].served = "200"
            /\ task[t].bytes = task[t].expect.data

\* C8: get_pdf_path and get_image_path raise their not-found error for a
\* blob that was never saved, and for one whose doc_id was deleted after
\* the save.
C8_NotFound ==
    \A t \in Tasks :
        (GetDone(t) /\ task[t].expect.kind \in {"never", "deleted"}) =>
            /\ task[t].result = NotFoundError(task[t].op)
            /\ task[t].served = "404"

\* A blob was saved, its doc_id deleted, and the get that followed raised
\* not-found.
C8_Witness ==
    \E t \in Tasks :
        /\ GetDone(t)
        /\ task[t].expect.kind = "deleted"
        /\ task[t].path \in saved
        /\ task[t].result = NotFoundError(task[t].op)

\* C9: delete_document of a doc_id that has no stored blob when the call
\* takes its lock returns successfully, as long as no I/O error is
\* injected and the call is not cancelled.
C9_IdempotentDelete ==
    \A t \in Tasks :
        ( /\ task[t].op = "delete_document"
          /\ task[t].pc = "done"
          /\ task[t].result # "cancelled"
          /\ ~task[t].before.exists
          /\ faults = 0 ) =>
            task[t].result = "ok"

\* C10: when the last mutating call on a doc_id is a delete_document that
\* returned successfully, neither the PDF nor any page image of the doc_id
\* exists, so get_pdf_path and get_image_path find no path.
C10_AllGone ==
    \A d \in DocIds :
        (lastDone[d].kind = "deleted" /\ Quiet(d)) =>
            \A p \in Blobs(d) : ~path_exists(files, p)

\* The PDF and a page image of a doc_id were saved, and the delete that
\* followed found them and returned successfully.
C10_Witness ==
    \E t \in Tasks, n \in PageNumbers :
        /\ task[t].op = "delete_document"
        /\ task[t].pc = "done" /\ task[t].result = "ok"
        /\ task[t].before.exists
        /\ {pdf_path(task[t].doc_id), image_path(task[t].doc_id, n)} \subseteq saved
        /\ lastDone[task[t].doc_id].kind = "deleted"
        /\ Quiet(task[t].doc_id)
        /\ faults = 0

\* The next step of the mutating call of task t.
MutatingStep(t) ==
    \/ Wake(t)
    \/ SaveOpen(t) \/ SaveWrite(t) \/ SaveClose(t)
    \/ DeleteExists(t) \/ DeleteRemovePdf(t)
    \/ DeleteList(t) \/ DeleteRemoveImage(t)

\* Task t goes from calling to waiting for its lock.
StartsWaiting(t) == task[t].pc # "wait" /\ task'[t].pc = "wait"

\* A mutating call of another task that holds or waits for stripe i.
OnStripe(u, i) ==
    /\ task[u].op \in MutatingOps
    /\ StripeOf(u) = i
    /\ (InCritical(u) \/ task[u].pc = "wait")

\* A mutating call in flight that cannot take its next step is waiting, and
\* the lock of its own stripe is held or another call is ahead of it there.
BlockedByOwnStripe ==
    \A t \in Tasks :
        (task[t].op \in MutatingOps /\ InFlight(task[t])
            /\ ~ENABLED MutatingStep(t)) =>
            /\ task[t].pc = "wait"
            /\ \/ locks[StripeOf(t)].locked
               \/ Head(locks[StripeOf(t)].waiters) # t

\* C11: a mutating call starts to wait only when a mutating call of its own
\* stripe holds or waits for the lock, and a call that holds its lock can
\* always take its next step, whatever the calls of other stripes do.
C11_NoForeignWait ==
    /\ [][\A t \in Tasks :
            StartsWaiting(t) =>
                \E u \in Tasks \ {t} : OnStripe(u, get_lock(task'[t].doc_id))]_vars
    /\ []BlockedByOwnStripe

\* Two mutating calls on doc_ids of different stripes are inside their
\* critical sections at the same time, and neither has waited.
C11_Witness ==
    \E t, u \in Tasks :
        /\ InCritical(t) /\ InCritical(u)
        /\ StripeOf(t) # StripeOf(u)
        /\ ~task[t].waited /\ ~task[u].waited

\* The next step of the get of task t, and of the reader of its path.
GetStep(t) == GetExists(t) \/ ReadFile(t)

\* Task t is in the queue of some stripe lock.
Queued(t) ==
    \E i \in Stripes : \E k \in 1..Len(locks[i].waiters) : locks[i].waiters[k] = t

\* C12: a get in flight is never queued for a stripe lock and can always take
\* its next step, also while a save or delete_document of its doc_id, or of
\* another doc_id of the same stripe, holds the lock.
C12_GetNeverWaits ==
    \A t \in Tasks :
        (task[t].op \in GetOps /\ InFlight(task[t])) =>
            /\ task[t].pc \in {"stat", "read"}
            /\ ~Queued(t)
            /\ ENABLED GetStep(t)

\* A get has returned its path and the path was read, all while a save of
\* the same path that never waited still holds the stripe lock.
C12_Witness ==
    \E t, w \in Tasks :
        /\ GetDone(t) /\ task[t].result = "ok" /\ task[t].served = "200"
        /\ task[t].saw \in {"whole", "partial"}
        /\ w \in Writers(task[t].path)
        /\ ~task[w].waited
        /\ locks[StripeOf(w)].locked

\* C13: when two delete_document calls on distinct doc_ids have run
\* concurrently to their end, with no I/O error injected, both returned
\* successfully and no blob of either doc_id exists.
C13_ConcurrentDeletes ==
    \A t, u \in Tasks :
        ( /\ t # u
          /\ task[t].op = "delete_document" /\ task[u].op = "delete_document"
          /\ task[t].doc_id # task[u].doc_id
          /\ task[t].pc = "done" /\ task[u].pc = "done"
          /\ task[t].result # "cancelled" /\ task[u].result # "cancelled"
          /\ faults = 0 ) =>
            /\ task[t].result = "ok" /\ task[u].result = "ok"
            /\ \A p \in Blobs(task[t].doc_id) \cup Blobs(task[u].doc_id) :
                   ~Exists(files, p)

\* C14: when the two doc_ids share a stripe and all their mutating calls
\* have completed with no I/O error or cancellation, every call returned
\* successfully and every blob of each doc_id is as when the calls on that
\* doc_id alone are applied in the order of their lock acquisition.
C14_CollisionHarmless ==
    ( /\ get_lock(DocA) = get_lock(DocAP1)
      /\ faults = 0
      /\ \A d \in DocIds : Quiet(d) ) =>
        /\ \A t \in Tasks :
               (task[t].op \in MutatingOps /\ task[t].pc = "done") =>
                   task[t].result = "ok"
        /\ \A d \in DocIds : \A p \in Blobs(d) :
               FileState(files, p) = FileState(ref, p)

\* This step is an I/O error in the save of task t (not its cancellation).
SaveIOError(t) ==
    /\ task[t].op \in SaveOps
    /\ InCritical(t)
    /\ faults' = faults + 1
    /\ task'[t] # task[t]
    /\ task'[t].result # "cancelled"

\* C15: an I/O error while opening, writing or closing the file of a save
\* ends the call at once with SavePDFError (SaveImageError for save_image):
\* the call touches the file no more, holds no lock and returns no path.
C15_SaveErrorRaised ==
    [][\A t \in Tasks :
            SaveIOError(t) =>
                /\ task'[t].pc = "done"
                /\ task'[t].result = SaveError(task[t].op)
                /\ files' = files
                /\ ~locks'[StripeOf(t)].locked]_vars

\* A save has ended with its error after an I/O error inside its critical
\* section, and the lock of its stripe is free.
C15_Witness ==
    \E t \in Tasks :
        /\ task[t].op \in SaveOps /\ task[t].pc = "done"
        /\ task[t].result = SaveError(task[t].op)
        /\ lastDone[task[t].doc_id] = Ended(task[t], task[t].result)
        /\ ~locks[StripeOf(t)].locked

\* This step is an error of an I/O call in the delete of task t: an
\* injected one, or a remove that found its file gone.
DeleteIOError(t) ==
    /\ task[t].op = "delete_document"
    /\ task[t].pc \in {"rmpdf", "list", "rmimg"}
    /\ task'[t] # task[t]
    /\ task'[t].result # "cancelled"
    /\ \/ faults' = faults + 1
       \/ task[t].pc \in {"rmpdf", "rmimg"} /\ files' = files

\* The images of the store.
Images(fs) == [p \in {q \in DOMAIN fs : q.dir = "images"} |-> fs[p]]

\* C16: an I/O error in delete_document ends the call at once with
\* DeleteDocumentError and the lock free; the step removes nothing and puts
\* nothing back, and no step of a delete up to and including the removal of
\* the PDF touches an image.
C16_DeleteStopsAtError ==
    [][\A t \in Tasks :
            /\ DeleteIOError(t) =>
                /\ task'[t].pc = "done"
                /\ task'[t].result = "DeleteDocumentError"
                /\ files' = files
                /\ ~locks'[StripeOf(t)].locked
            /\ ( /\ task[t].op = "delete_document"
                 /\ task[t].pc \in {"exists", "rmpdf"}
                 /\ task'[t] # task[t] ) => Images(files') = Images(files)]_vars

\* A delete removed the PDF and one image, then failed on the other image:
\* the two stay removed and the image it had not reached is still there.
C16_Witness ==
    \E t \in Tasks, n \in PageNumbers :
        /\ task[t].op = "delete_document" /\ task[t].pc = "done"
        /\ task[t].result = "DeleteDocumentError"
        /\ faults = 1
        /\ ~Exists(files, pdf_path(task[t].doc_id))
        /\ Exists(files, image_path(task[t].doc_id, n))
        /\ \E k \in PageNumbers : ~Exists(files, image_path(task[t].doc_id, k))

\* ------------------------------------------------------------ HTTP facade
\* api.py binds s_service to the StorageService of storage.py (api.py:26,
\* 48), whose methods are plain functions: each runs to its end when it is
\* called, without an await, and takes no lock.

\* The outcome of a call of a plain method: the store after it, the
\* exception it raised, the value it returned.
Returned(fs, value) == [fs |-> fs, raised |-> "none", value |-> value]
Raised(fs, exc) == [fs |-> fs, raised |-> exc, value |-> NoPath]

\* Path.glob(f"{doc_id}_p*.jpg") on a file name.
glob_matches(doc_id, name) ==
    /\ StartsWith(name, doc_id \o <<"_", "p">>)
    /\ EndsWith(name, <<".", "j", "p", "g">>)
    /\ Len(name) >= Len(doc_id) + 6

\* storage.py: save_pdf and save_image write the file and return its path.
sync_save(fs, p, content) == Returned(Put(fs, p, content), p)

\* storage.py: get_pdf_path and get_image_path.
sync_get(fs, p) ==
    IF Exists(fs, p) THEN Returned(fs, p) ELSE Raised(fs, "FileNotFoundError")

\* storage.py: delete_document.
sync_delete(fs, doc_id) ==
    LET gone == {pdf_path(doc_id)} \cup
                {q \in DOMAIN fs : q.dir = "images" /\ glob_matches(doc_id, q.name)}
    IN Returned([q \in DOMAIN fs \ gone |-> fs[q]], NoPath)

\* `await s_service.method(...)`: the call is evaluated first; what it
\* returns (a Path, or None) is no awaitable, so the await raises TypeError.
Awaited(call) == IF call.raised # "none" THEN call.raised ELSE "TypeError"

\* The status a handler answers with when the exception exc leaves its try
\* block: the get handlers turn their not-found error into 404 and any other
\* exception into 500; the other handlers catch their own error as 500 and
\* an uncaught exception is answered with 500 by the server.
Status(op, exc) ==
    IF exc = "none" THEN "200"
    ELSE IF op \in GetOps /\ exc = NotFoundError(op) THEN "404"
    ELSE "500"

\* A request record: the fields of a task and the exception that left the
\* handler's try block.
IdleRequest == [f \in DOMAIN IdleTask \cup {"error"} |->
                    IF f = "error" THEN "none" ELSE IdleTask[f]]

\* One request, handled from its arrival to its answer.
Handle(t, op, doc_id, page_number, content, p, call) ==
    /\ CanCall(t)
    /\ files' = call.fs
    /\ task' = [task EXCEPT ![t] =
            [IdleRequest EXCEPT
                !.op = op, !.doc_id = doc_id, !.page_number = page_number,
                !.content = content, !.path = p, !.pc = "done",
                !.before = FileState(files, p),
                !.result = IF call.raised = "none" THEN "ok" ELSE call.raised,
                !.error = Awaited(call),
                !.served = Status(op, Awaited(call))]]
    /\ ops' = ops + 1
    /\ saved' = IF op \in SaveOps THEN saved \cup {p} ELSE saved
    /\ UNCHANGED <<hashOf, locks, faults, ref, lastAcq, lastDone>>

\* POST /pdf/save
api_save_pdf(t, doc_id, content) ==
    Handle(t, "save_pdf", doc_id, 0, content, pdf_path(doc_id),
           sync_save(files, pdf_path(doc_id), content))

\* POST /image/save
api_save_image(t, doc_id, page_number, content) ==
    Handle(t, "save_image", doc_id, page_number, content,
           image_path(doc_id, page_number),
           sync_save(files, image_path(doc_id, page_number), content))

\* GET /pdf/get
api_get_pdf(t, doc_id) ==
    Handle(t, "get_pdf", doc_id, 0, <<>>, pdf_path(doc_id),
           sync_get(files, pdf_path(doc_id)))

\* GET /image/get
api_get_image(t, doc_id, page_number) ==
    Handle(t, "get_image", doc_id, page_number, <<>>,
           image_path(doc_id, page_number),
           sync_get(files, image_path(doc_id, page_number)))

\* DELETE /document/delete
api_delete_document(t, doc_id) ==
    Handle(t, "delete_document", doc_id, 0, <<>>, pdf_path(doc_id),
           sync_delete(files, doc_id))

InitApi ==
    /\ hashOf \in Hashes
    /\ locks = [i \in 0..(LOCK_STRIPES - 1) |-> [locked |-> FALSE, waiters |-> <<>>]]
    /\ files = <<>>
    /\ task = [t \in Tasks |-> IdleRequest]
    /\ ops = 0
    /\ faults = 0
    /\ ref = <<>>
    /\ lastAcq = [d \in DocIds |-> 0]
    /\ lastDone = [d \in DocIds |-> [kind |-> "none", path |-> NoPath, content |-> <<>>]]
    /\ saved = {}

NextApi ==
    \E t \in Tasks :
        \/ \E d \in DocIds, c \in Contents : api_save_pdf(t, d, c)
        \/ \E d \in DocIds, n \in PageNumbers, c \in Contents :
               api_save_image(t, d, n, c)
        \/ \E d \in DocIds : api_get_pdf(t, d)
        \/ \E d \in DocIds, n \in PageNumbers : api_get_image(t, d, n)
        \/ \E d \in DocIds : api_delete_document(t, d)

SpecApi == InitApi /\ [][NextApi]_vars

\* C17: every request to POST /pdf/save, POST /image/save or
\* DELETE /document/delete whose storage call returned is answered with 200.
C17_SuccessAnswers200 ==
    \A t \in Tasks :
        ( /\ task[t].pc = "done"
          /\ task[t].op \in MutatingOps
          /\ task[t].result = "ok" ) => task[t].served = "200"

\* C18: GET /pdf/get and GET /image/get answer 404 when the blob does not
\* exist and 200 when it exists.
C18_GetAnswers ==
    \A t \in Tasks :
        (task[t].pc = "done" /\ task[t].op \in GetOps) =>
            task[t].served = IF task[t].before.exists THEN "200" ELSE "404"

\* C19: every call addresses the path of the layout: save_pdf,
\* get_pdf_path and delete_document the file pdfs/{doc_id}.pdf, save_image
\* and get_image_path the file images/{doc_id}_p{page_number}.jpg; the file
\* a save has opened is the one at that path, and a get returns that path
\* only when a file is there.
C19_Layout ==
    \A t \in Tasks :
        LET r == task[t] IN
        /\ r.op \in {"save_pdf", "get_pdf", "delete_document"} =>
               r.path = [dir |-> "pdfs",
                         name |-> r.doc_id \o <<".", "p", "d", "f">>]
        /\ r.op \in {"save_image", "get_image"} =>
               r.path = [dir |-> "images",
                         name |-> r.doc_id \o <<"_", "p">>
                                    \o <<DigitChars[r.page_number + 1]>>
                                    \o <<".", "j", "p", "g">>]
        /\ (r.op \in SaveOps /\ r.pc \in {"write", "close"} /\ r.attached) =>
               Exists(files, r.path)
        /\ (r.op \in GetOps /\ r.pc = "read") => r.result = "ok"

\* save_image of the last page returned its path, and a get_image_path of
\* the same doc_id and page returned the same path, from which the saved
\* content was read.
C19_Witness ==
    \E t, u \in Tasks :
        /\ task[t].op = "save_image" /\ task[t].pc = "done"
        /\ task[t].result = "ok" /\ task[t].page_number = MaxPage
        /\ task[u].op = "get_image" /\ GetDone(u) /\ task[u].result = "ok"
        /\ task[u].doc_id = task[t].doc_id
        /\ task[u].page_number = task[t].page_number
        /\ task[u].path = task[t].path
        /\ task[u].served = "200" /\ task[u].bytes = task[t].content
        /\ task[t].content # <<>>

\* ---------------------------------------------------------- path traversal
\* A doc_id with a path-traversal sequence: "../a".
DocUp == <<".", ".", "/", "a">>
AnyIds == {DocA, DocUp}

\* The components of a name, split at the separators.
RECURSIVE Split(_)
Split(name) ==
    IF name = <<>> THEN <<<<>>>>
    ELSE LET rest == Split(Tail(name)) IN
         IF Head(name) = "/" THEN <<<<>>>> \o rest
         ELSE <<<<Head(name)>> \o Head(rest)>> \o Tail(rest)

\* The operating system's walk along the components: ".." steps up.
RECURSIVE Walk(_, _)
Walk(at, parts) ==
    IF parts = <<>> THEN at
    ELSE IF Head(parts) = <<".", ".">>
        THEN Walk(IF at = <<>> THEN at ELSE SubSeq(at, 1, Len(at) - 1),
                  Tail(parts))
    ELSE IF Head(parts) \in {<<>>, <<".">>} THEN Walk(at, Tail(parts))
    ELSE Walk(Append(at, Head(parts)), Tail(parts))

\* base_path, and the directory names under it, as components.
BaseDir == <<"b", "a", "s", "e">>
DirName(dir) ==
    IF dir = "pdfs" THEN <<"p", "d", "f", "s">>
    ELSE <<"i", "m", "a", "g", "e", "s">>

\* Where the file of self.pdf_dir / name or self.image_dir / name lies: a
\* name that starts with the separator replaces the directory.
Resolve(p) ==
    IF p.name # <<>> /\ Head(p.name) = "/" THEN Walk(<<>>, Split(p.name))
    ELSE Walk(<<BaseDir, DirName(p.dir)>>, Split(p.name))

\* The file lies directly in {base}/pdfs or {base}/images.
InStorage(p) ==
    /\ Len(Resolve(p)) = 3
    /\ Resolve(p)[1] = BaseDir
    /\ Resolve(p)[2] \in {DirName("pdfs"), DirName("images")}

\* The service called with any string as doc_id.
InitTraversal ==
    /\ hashOf \in {h \in [AnyIds -> HashValues] : h[DocA] = LOCK_STRIPES}
    /\ locks = [i \in 0..(LOCK_STRIPES - 1) |-> [locked |-> FALSE, waiters |-> <<>>]]
    /\ files = <<>>
    /\ task = [t \in Tasks |-> IdleTask]
    /\ ops = 0
    /\ faults = 0
    /\ ref = <<>>
    /\ lastAcq = [d \in AnyIds |-> 0]
    /\ lastDone = [d \in AnyIds |-> [kind |-> "none", path |-> NoPath, content |-> <<>>]]
    /\ saved = {}

NextTraversal ==
    \E t \in Tasks :
        \/ \E d \in AnyIds : save_pdf(t, d, Low)
        \/ \E d \in AnyIds : save_image(t, d, 0, Low)
        \/ \E d \in AnyIds : delete_document(t, d)
        \/ \E d \in AnyIds : get_pdf_path(t, d)
        \/ \E d \in AnyIds : get_image_path(t, d, 0)
        \/ Wake(t)
        \/ SaveOpen(t)
        \/ SaveWrite(t)
        \/ SaveClose(t)
        \/ SaveFail(t)
        \/ DeleteExists(t)
        \/ DeleteRemovePdf(t)
        \/ DeleteList(t)
        \/ DeleteRemoveImage(t)
        \/ DeleteFail(t)
        \/ GetExists(t)
        \/ ReadFile(t)
        \/ Cancel(t)

SpecTraversal == InitTraversal /\ [][NextTraversal]_vars

\* C20: whatever doc_id the calls are given, every file of the store lies
\* in {base}/pdfs or {base}/images, and no call holds a path outside them.
C20_NoTraversal ==
    /\ \A p \in DOMAIN files : InStorage(p)
    /\ \A t \in Tasks : task[t].op # "none" => InStorage(task[t].path)

\* The lock table has one lock per stripe index 0..N-1; the lock of a doc_id
\* is the one at hash(doc_id) mod N, and a call waits in the queue of, or
\* holds, the lock of its doc_id and no other.
LockTable ==
    /\ DOMAIN locks = 0..(LOCK_STRIPES - 1)
    /\ Cardinality(DOMAIN locks) = LOCK_STRIPES
    /\ \A d \in DocIds :
        /\ get_lock(d) \in DOMAIN locks
        /\ get_lock(d) = hashOf[d] % LOCK_STRIPES
    /\ \A i \in DOMAIN locks : \A k \in 1..Len(locks[i].waiters) :
        LET t == locks[i].waiters[k] IN
        /\ task[t].pc = "wait"
        /\ i = hashOf[task[t].doc_id] % LOCK_STRIPES
    /\ \A t \in Tasks :
        InCritical(t) => locks[hashOf[task[t].doc_id] % LOCK_STRIPES].locked

\* C21: the lock table has exactly LOCK_STRIPES locks in every state, no
\* step adds, removes or re-indexes a lock or changes the hash of a doc_id,
\* and the lock of a doc_id is always the one at hash(doc_id) mod
\* LOCK_STRIPES.
C21_LockTableFixed ==
    /\ []LockTable
    /\ [][DOMAIN locks' = DOMAIN locks /\ hashOf' = hashOf]_vars

\* Two calls on a doc_id whose hash is negative have resolved the same
\* lock, the last of the table: one holds it, the other waits in its queue.
C21_Witness ==
    \E t, u \in Tasks :
        /\ InCritical(t)
        /\ hashOf[task[t].doc_id] < 0
        /\ task[u].doc_id = task[t].doc_id
        /\ task[u].pc = "wait"
        /\ locks[LOCK_STRIPES - 1].locked
        /\ locks[LOCK_STRIPES - 1].waiters = <<u>>

\* ------------------------------------------------------------ StorageClient
\* client.py: every operation of StorageClient sends one request through
\* self._client, calls raise_for_status() on the response and returns what
\* the response carries.

\* AsyncHTTPTransport(retries=3), client.py:58.
retries == 3

MaxResponses == 3

\* The status codes a server answers with.
Statuses == {200, 500, 502}

\* What a server is going to answer to its next requests, one after the
\* other: the k-th answer has a status and carries the k-th payload.
Scripts == [1..MaxResponses -> Statuses]

\* How many times in a row the connection to the server fails before one is
\* established.
Refusals == {0, 1, retries + 1}

\* The k-th answer of a script.
Answer(script, k) == [status |-> script[k], payload |-> k]

\* self._client.post / get / delete: the transport tries to connect, again
\* after a failed attempt until it has retried `retries` times, and the
\* request is answered by the next answer of the server, whatever its
\* status. Nothing sends the request a second time once it was answered.
Request(refusals, script) ==
    IF refusals > retries
    THEN [raised |-> "ConnectError", attempts |-> retries + 1, requests |-> 0,
          response |-> [status |-> 0, payload |-> 0]]
    ELSE [raised |-> "none", attempts |-> refusals + 1, requests |-> 1,
          response |-> Answer(script, 1)]

\* A variant of raise_for_status that lets a plain 500 pass.
raise_for_status_above_500(status) ==
    IF status > 500 THEN "HTTPStatusError" ELSE "none"

\* Response.raise_for_status(): HTTPStatusError for a 4xx or 5xx status.
raise_for_status(status) ==
    IF status >= 400 THEN "HTTPStatusError" ELSE "none"

\* What an operation returns from a response that passed raise_for_status:
\* the saves return resp.json()["data"][...], the gets resp.content,
\* delete_document returns None.
ReturnValue(op, response) ==
    IF op = "delete_document" THEN 0 ELSE response.payload

IdleCall ==
    [op |-> "none", doc_id |-> <<>>, page_number |-> 0, pc |-> "idle",
     refusals |-> 0, script |-> <<>>, attempts |-> 0, requests |-> 0,
     status |-> 0, result |-> "none", value |-> 0]

\* One operation of the client, from the call to its return or exception.
Call(t, op, doc_id, page_number, refusals, script) ==
    LET sent == Request(refusals, script)
        exc == IF sent.raised # "none" THEN sent.raised
               ELSE raise_for_status(sent.response.status)
    IN /\ CanCall(t)
       /\ task' = [task EXCEPT ![t] =
               [IdleCall EXCEPT
                   !.op = op, !.doc_id = doc_id, !.page_number = page_number,
                   !.pc = "done", !.refusals = refusals, !.script = script,
                   !.attempts = sent.attempts, !.requests = sent.requests,
                   !.status = sent.response.status,
                   !.result = IF exc = "none" THEN "ok" ELSE exc,
                   !.value = IF exc = "none"
                             THEN ReturnValue(op, sent.response) ELSE 0]]
       /\ ops' = ops + 1
       /\ UNCHANGED <<hashOf, locks, files, faults, ref, lastAcq, lastDone, saved>>

client_save_pdf(t, doc_id, refusals, script) ==
    Call(t, "save_pdf", doc_id, 0, refusals, script)

client_save_image(t, doc_id, page_number, refusals, script) ==
    Call(t, "save_image", doc_id, page_number, refusals, script)

client_get_pdf(t, doc_id, refusals, script) ==
    Call(t, "get_pdf", doc_id, 0, refusals, script)

client_get_image(t, doc_id, page_number, refusals, script) ==
    Call(t, "get_image", doc_id, page_number, refusals, script)

client_delete_document(t, doc_id, refusals, script) ==
    Call(t, "delete_document", doc_id, 0, refusals, script)

InitClient ==
    /\ hashOf \in Hashes
    /\ locks = [i \in 0..(LOCK_STRIPES - 1) |-> [locked |-> FALSE, waiters |-> <<>>]]
    /\ files = <<>>
    /\ task = [t \in Tasks |-> IdleCall]
    /\ ops = 0
    /\ faults = 0
    /\ ref = <<>>
    /\ lastAcq = [d \in DocIds |-> 0]
    /\ lastDone = [d \in DocIds |-> [kind |-> "none", path |-> NoPath, content |-> <<>>]]
    /\ saved = {}

\* The client passes the doc_id on as a request parameter and nothing else
\* depends on it: one doc_id stands for all.
NextClient ==
    \E t \in Tasks, r \in Refusals, s \in Scripts :
        \/ client_save_pdf(t, DocA, r, s)
        \/ \E n \in PageNumbers : client_save_image(t, DocA, n, r, s)
        \/ client_get_pdf(t, DocA, r, s)
        \/ \E n \in PageNumbers : client_get_image(t, DocA, n, r, s)
        \/ client_delete_document(t, DocA, r, s)

SpecClient == InitClient /\ [][NextClient]_vars

FailTwiceThenOk == <<500, 502, 200>>

\* C23: a save_pdf answered with 500, then 502, then 200 sends the request
\* three times and returns the pdf_path carried by the 200 response.
C23_RetriesUntil200 ==
    \A t \in Tasks :
        ( /\ task[t].pc = "done" /\ task[t].op = "save_pdf"
          /\ task[t].refusals = 0 /\ task[t].script = FailTwiceThenOk )
            => /\ task[t].result = "ok"
               /\ task[t].requests = 3
               /\ task[t].value = Answer(FailTwiceThenOk, 3).payload

\* ---------------------------------------------------- Document and Query
\* shared/models/domain/document.py (models/document.py has the same
\* setter) and models/query.py: objects with a status, a timestamp per
\* state, a status setter and to_minimal(). In this specification every
\* entry of `task` is such an object: the first a Document, the others
\* Queries.

MaxClock == 2

\* An attribute that holds None.
None == -1

DocumentStatus ==
    {[enum |-> "DocumentStatus", name |-> n] :
        n \in {"CREATED", "PROCESSED", "INDEXED"}}

QueryStatus ==
    {[enum |-> "QueryStatus", name |-> n] :
        n \in {"CREATED", "PROCESSED", "INDEXED", "CONTEXT_RETRIEVED", "ANSWERED"}}

\* The values a caller can assign to a status: a member of either
\* enumeration, or the plain string of a member's value.
Assignable ==
    DocumentStatus \cup QueryStatus \cup {[enum |-> "str", name |-> "processed"]}

isinstance(value, enum) == value.enum = enum

\* The position of a state in its chain.
Rank(name) ==
    CASE name = "CREATED" -> 0
      [] name = "PROCESSED" -> 1
      [] name = "INDEXED" -> 2
      [] name = "CONTEXT_RETRIEVED" -> 3
      [] name = "ANSWERED" -> 4

\* The attribute that holds the timestamp of a state.
StampOf(name) ==
    CASE name = "CREATED" -> "created_at"
      [] name = "PROCESSED" -> "processed_at"
      [] name = "INDEXED" -> "indexed_at"
      [] name = "CONTEXT_RETRIEVED" -> "context_retrieved_at"
      [] name = "ANSWERED" -> "answered_at"

Stamps ==
    {"created_at", "processed_at", "indexed_at", "context_retrieved_at",
     "answered_at"}

NoMinimal == [id |-> 0, status |-> "none", updated_at |-> None]

\* Document.__init__ and Query.__init__. A Document has no attribute
\* context_retrieved_at or answered_at: the record keeps them at None.
NewObject(kind, id, now) ==
    [kind |-> kind, id |-> id, status |-> "CREATED", created_at |-> now,
     processed_at |-> None, indexed_at |-> None,
     context_retrieved_at |-> None, answered_at |-> None,
     assigned |-> [enum |-> "none", name |-> "none"], raised |-> "none",
     minimal |-> NoMinimal]

\* A variant of the table of Document that lets CREATED go to INDEXED.
Document_valid_transitions_skip(status) ==
    CASE status = "CREATED" -> {"PROCESSED", "INDEXED"}
      [] status = "PROCESSED" -> {"INDEXED"}
      [] status = "INDEXED" -> {}

\* valid_transitions of Document.status.
Document_valid_transitions(status) ==
    CASE status = "CREATED" -> {"PROCESSED"}
      [] status = "PROCESSED" -> {"INDEXED"}
      [] status = "INDEXED" -> {}

\* A variant of the table of Query that lets ANSWERED go back to CREATED.
Query_valid_transitions_reopen(status) ==
    CASE status = "CREATED" -> {"PROCESSED"}
      [] status = "PROCESSED" -> {"INDEXED"}
      [] status = "INDEXED" -> {"CONTEXT_RETRIEVED"}
      [] status = "CONTEXT_RETRIEVED" -> {"ANSWERED"}
      [] status = "ANSWERED" -> {"CREATED"}

\* valid_transitions of Query.status.
Query_valid_transitions(status) ==
    CASE status = "CREATED" -> {"PROCESSED"}
      [] status = "PROCESSED" -> {"INDEXED"}
      [] status = "INDEXED" -> {"CONTEXT_RETRIEVED"}
      [] status = "CONTEXT_RETRIEVED" -> {"ANSWERED"}
      [] status = "ANSWERED" -> {}

\* The object after `self.status = new_status` left with ValueError.
Rejected(self, new_status) ==
    [self EXCEPT !.assigned = new_status, !.raised = "ValueError",
                 !.minimal = NoMinimal]

\* The object after `self.status = new_status` was accepted at time now: the
\* status is assigned, then the if / elif chain sets the timestamp of the
\* state entered (no branch of either chain is for CREATED).
Accepted(self, new_status, now) ==
    LET entered == [self EXCEPT !.status = new_status.name,
                                !.assigned = new_status, !.raised = "none",
                                !.minimal = NoMinimal]
    IN IF new_status.name = "CREATED" THEN entered
       ELSE [entered EXCEPT ![StampOf(new_status.name)] = now]

\* The setter of Document.status.
Document_status(self, new_status, now) ==
    IF ~isinstance(new_status, "DocumentStatus") THEN Rejected(self, new_status)
    ELSE IF new_status.name \notin Document_valid_transitions(self.status)
    THEN Rejected(self, new_status)
    ELSE Accepted(self, new_status, now)

\* The setter of Query.status.
Query_status(self, new_status, now) ==
    IF ~isinstance(new_status, "QueryStatus") THEN Rejected(self, new_status)
    ELSE IF new_status.name \notin Query_valid_transitions(self.status)
    THEN Rejected(self, new_status)
    ELSE Accepted(self, new_status, now)

\* `a or b` on optional timestamps: a unless it is None.
Or(a, b) == IF a # None THEN a ELSE b

\* A variant of Document.to_minimal that prefers processed_at.
Document_to_minimal_first(self) ==
    [id |-> self.id, status |-> self.status,
     updated_at |-> Or(self.processed_at, Or(self.indexed_at, self.created_at))]

\* Document.to_minimal
Document_to_minimal(self) ==
    [id |-> self.id, status |-> self.status,
     updated_at |-> Or(self.indexed_at, Or(self.processed_at, self.created_at))]

\* Query.to_minimal
Query_to_minimal(self) ==
    [id |-> self.id, status |-> self.status,
     updated_at |->
        Or(self.answered_at, Or(self.context_retrieved_at,
           Or(self.indexed_at, Or(self.processed_at, self.created_at))))]

\* The latest of a set of timestamps.
Latest(S) == CHOOSE x \in S : \A y \in S : y <= x

\* The timestamps an object holds.
StampsSet(self) == {self[f] : f \in Stamps} \ {None}

\* The latest reading of the clock that any object holds.
LastReading == Latest(UNION {StampsSet(task[t]) : t \in Tasks})

\* datetime.now(): a reading of the clock, never earlier than a reading
\* taken before.
Now == {n \in 0..MaxClock : n >= LastReading}

Documents == {t \in Tasks : task[t].kind = "Document"}
Queries == {t \in Tasks : task[t].kind = "Query"}

\* document.status = new_status
AssignDocumentStatus(t, new_status, now) ==
    /\ t \in Documents
    /\ task' = [task EXCEPT ![t] = Document_status(@, new_status, now)]
    /\ UNCHANGED <<hashOf, locks, files, ops, faults, ref, lastAcq, lastDone, saved>>

\* query.status = new_status
AssignQueryStatus(t, new_status, now) ==
    /\ t \in Queries
    /\ task' = [task EXCEPT ![t] = Query_status(@, new_status, now)]
    /\ UNCHANGED <<hashOf, locks, files, ops, faults, ref, lastAcq, lastDone, saved>>

\* document.to_minimal()
CallDocumentToMinimal(t) ==
    /\ t \in Documents
    /\ task' = [task EXCEPT ![t].minimal = Document_to_minimal(task[t])]
    /\ UNCHANGED <<hashOf, locks, files, ops, faults, ref, lastAcq, lastDone, saved>>

\* query.to_minimal()
CallQueryToMinimal(t) ==
    /\ t \in Queries
    /\ task' = [task EXCEPT ![t].minimal = Query_to_minimal(task[t])]
    /\ UNCHANGED <<hashOf, locks, files, ops, faults, ref, lastAcq, lastDone, saved>>

InitObjects ==
    /\ hashOf \in Hashes
    /\ locks = [i \in 0..(LOCK_STRIPES - 1) |-> [locked |-> FALSE, waiters |-> <<>>]]
    /\ files = <<>>
    /\ \E now \in [Tasks -> 0..1] :
           task = [t \in Tasks |->
                      NewObject(IF t = 1 THEN "Document" ELSE "Query", t, now[t])]
    /\ ops = 0
    /\ faults = 0
    /\ ref = <<>>
    /\ lastAcq = [d \in DocIds |-> 0]
    /\ lastDone = [d \in DocIds |-> [kind |-> "none", path |-> NoPath, content |-> <<>>]]
    /\ saved = {}

NextObjects ==
    \E t \in Tasks :
        \/ \E v \in Assignable, now \in Now : AssignDocumentStatus(t, v, now)
        \/ \E v \in Assignable, now \in Now : AssignQueryStatus(t, v, now)
        \/ CallDocumentToMinimal(t)
        \/ CallQueryToMinimal(t)

SpecObjects == InitObjects /\ [][NextObjects]_vars

\* A step that assigns to the status of object t.
Assigns(t) == task'[t] # task[t] /\ task'[t].minimal = NoMinimal

\* The assignment of value to the status of old was accepted and gave new:
\* the status is the one assigned, its timestamp is a reading of the clock
\* and every other timestamp is as before.
TransitionMade(old, new, value, clock) ==
    /\ new.raised = "none"
    /\ new.status = value.name
    /\ new[StampOf(value.name)] \in clock
    /\ \A f \in Stamps \ {StampOf(value.name)} : new[f] = old[f]

\* The assignment raised ValueError and left status and timestamps alone.
TransitionRefused(old, new) ==
    /\ new.raised = "ValueError"
    /\ new.status = old.status
    /\ \A f \in Stamps : new[f] = old[f]

\* C24: a Document that was never assigned to is CREATED with no
\* processed_at and no indexed_at; an assignment of PROCESSED to a CREATED
\* document or of INDEXED to a PROCESSED one is accepted and sets only the
\* timestamp of the state entered; every other assignment raises ValueError
\* and changes neither the status nor a timestamp.
C24_DocumentTransitions ==
    /\ [](\A t \in Documents :
            task[t].assigned.enum = "none" =>
                /\ task[t].status = "CREATED"
                /\ task[t].processed_at = None /\ task[t].indexed_at = None)
    /\ [][\A t \in Documents :
            Assigns(t) =>
                LET old == task[t]
                    new == task'[t]
                    value == new.assigned
                IN IF /\ value \in DocumentStatus
                      /\ <<old.status, value.name>> \in
                            {<<"CREATED", "PROCESSED">>, <<"PROCESSED", "INDEXED">>}
                   THEN TransitionMade(old, new, value, Now)
                   ELSE TransitionRefused(old, new)]_vars

\* An INDEXED document, processed before it was indexed, refused an
\* assignment of a DocumentStatus.
C24_Witness ==
    \E t \in Documents :
        /\ task[t].status = "INDEXED"
        /\ task[t].processed_at # None
        /\ task[t].processed_at < task[t].indexed_at
        /\ task[t].raised = "ValueError"
        /\ task[t].assigned \in DocumentStatus

\* C25: a Query that was never assigned to is CREATED; an assignment is
\* accepted exactly when it assigns the QueryStatus that follows the current
\* one in CREATED, PROCESSED, INDEXED, CONTEXT_RETRIEVED, ANSWERED, and then
\* sets only the timestamp of the state entered; every other assignment
\* raises ValueError and changes neither the status nor a timestamp; the
\* status never moves backwards and never leaves ANSWERED.
C25_QueryTransitions ==
    /\ [](\A t \in Queries :
            task[t].assigned.enum = "none" =>
                /\ task[t].status = "CREATED"
                /\ StampsSet(task[t]) = {task[t].created_at})
    /\ [][\A t \in Queries :
            /\ Rank(task'[t].status) >= Rank(task[t].status)
            /\ task[t].status = "ANSWERED" => task'[t].status = "ANSWERED"
            /\ Assigns(t) =>
                LET old == task[t]
                    new == task'[t]
                    value == new.assigned
                IN IF /\ value \in QueryStatus
                      /\ Rank(value.name) = Rank(old.status) + 1
                   THEN TransitionMade(old, new, value, Now)
                   ELSE TransitionRefused(old, new)]_vars

\* An ANSWERED query refused to go back to CREATED.
C25_Witness ==
    \E t \in Queries :
        /\ task[t].status = "ANSWERED"
        /\ task[t].answered_at # None
        /\ task[t].raised = "ValueError"
        /\ task[t].assigned = [enum |-> "QueryStatus", name |-> "CREATED"]

Owns(r, p) ==
    IF r.op \in SaveOps THEN p = r.path ELSE p \in Blobs(r.doc_id)

\* Task t takes this step inside its critical section (losing the handle of
\* a file that another task unlinks is no step of t).
StepsInside(t) ==
    /\ InCritical(t)
    /\ [task'[t] EXCEPT !.attached = task[t].attached] # task[t]

\* C27: a step changes, creates or removes the file at a path only as a
\* step of a mutating call that is about this file: save_pdf(d) its PDF,
\* save_image(d, n) its image, delete_document(d) the PDF and the page
\* images of d; the blobs of every other doc_id stay as they are.
C27_Frame ==
    [][\A p \in DOMAIN files \cup DOMAIN files' :
          FileState(files', p) # FileState(files, p) =>
              \E t \in Tasks : StepsInside(t) /\ Owns(task[t], p)]_vars

\* ------------------------------------------------------------ failed save
\* Task t made the only call so far, a save, and it raised its save error.
OnlySaveFailed(t) ==
    /\ task[t].pc = "done"
    /\ task[t].op \in SaveOps
    /\ task[t].result = SaveError(task[t].op)
    /\ ops = 1

\* C28 as stated: after a save that raised its save error the blob is as it
\* was before the call (here: as the base directory held it at the start),
\* with its full content if it was stored and absent if it was not.
C28_FailedSaveKeepsBlob ==
    \A t \in Tasks :
        OnlySaveFailed(t) =>
            FileState(files, task[t].path) = FileState(StoredFiles, task[t].path)

\* C28, amended: after a save that raised its save error the lock is
\* released, every other blob is as it was, and the blob itself is either as it was (the open failed)
\* or a file that holds a prefix of the new content, the empty one included
\* (the open created or truncated it and the error came later).
C28_FailedSaveKeepsOrPrefix ==
    \A t \in Tasks :
        OnlySaveFailed(t) =>
            /\ ~locks[get_lock(task[t].doc_id)].locked
            /\ \A q \in (DOMAIN files \cup DOMAIN StoredFiles) \ {task[t].path} :
                   FileState(files, q) = FileState(StoredFiles, q)
            /\ \/ FileState(files, task[t].path) = FileState(StoredFiles, task[t].path)
               \/ /\ Exists(files, task[t].path)
                  /\ IsPrefix(files[task[t].path], task[t].content)

\* A failed save of a stored blob left the first byte of the new content,
\* which is neither the old content nor the new.
C28_Witness ==
    \E t \in Tasks :
        /\ OnlySaveFailed(t)
        /\ Exists(StoredFiles, task[t].path)
        /\ Exists(files, task[t].path)
        /\ Len(files[task[t].path]) = 1
        /\ files[task[t].path] # SubSeq(StoredFiles[task[t].path], 1, 1)

\* ---------------------------------------------------------------- progress
\* The event loop runs every coroutine that can go on, and a file system
\* step that was started completes: the next step of a mutating call that
\* stays possible is taken.
Progress == \A t \in Tasks : WF_vars(MutatingStep(t))

\* The mutating calls on their own: get_pdf_path and get_image_path take no
\* lock and change nothing, so they neither delay nor release a waiter.
NextLive ==
    \E t \in Tasks :
        \/ \E d \in DocIds, c \in Contents : save_pdf(t, d, c)
        \/ \E d \in DocIds, n \in PageNumbers, c \in Contents : save_image(t, d, n, c)
        \/ \E d \in DocIds : delete_document(t, d)
        \/ Wake(t)
        \/ SaveOpen(t)
        \/ SaveWrite(t)
        \/ SaveClose(t)
        \/ SaveFail(t)
        \/ DeleteExists(t)
        \/ DeleteRemovePdf(t)
        \/ DeleteList(t)
        \/ DeleteRemoveImage(t)
        \/ DeleteFail(t)
        \/ Cancel(t)

SpecLive == Init /\ [][NextLive]_vars /\ Progress

\* A call is in one place at a time: one that waits is in the queue of the
\* lock of its own stripe and of no other and is not inside a critical
\* section, and a lock that is held is held by one call inside the critical
\* section of that stripe.
OneLockEach ==
    /\ \A t \in Tasks : \A i \in DOMAIN locks :
           (\E k \in 1..Len(locks[i].waiters) : locks[i].waiters[k] = t)
               <=> (task[t].pc = "wait" /\ i = StripeOf(t))
    /\ \A i \in DOMAIN locks :
           locks[i].locked =>
               Cardinality({t \in Tasks : InCritical(t) /\ StripeOf(t) = i}) = 1

\* C29: no call holds one lock while it waits for another; every mutating
\* call that waits for its lock gets it (or is cancelled while it waits),
\* and every mutating call in flight ends, by a return or an exception.
C29_EveryCallEnds ==
    /\ []OneLockEach
    /\ \A t \in Tasks :
           (task[t].pc = "wait") ~> (InCritical(t) \/ task[t].result = "cancelled")
    /\ \A t \in Tasks :
           (task[t].op \in MutatingOps /\ InFlight(task[t])) ~> (task[t].pc = "done")

\* A call waits for the lock that another call on the same stripe holds.
C29_Witness ==
    \E t, u \in Tasks :
        /\ InCritical(t) /\ task[u].pc = "wait"
        /\ StripeOf(u) = StripeOf(t)
        /\ task[u].doc_id # task[t].doc_id

\* ------------------------------------------------------- one path per blob
\* Path-safe ids that end in a digit or hold "_p": a, a1, a_p, a_p1.
SafeIds == {DocA, <<"a", "1">>, <<"a", "_", "p">>, DocAP1}

\* Page numbers of one and of two digits.
WidePages == {0, 1, 10}

\* A save that runs from its call to its return with no other call in
\* between: the content is written to the file at the path the save builds
\* (service.py:83, 124). `ref` keeps, for every blob saved so far, that path
\* and the content saved last.
SaveAlone(t, op, doc_id, page_number, content) ==
    LET p == IF op = "save_pdf" THEN pdf_path(doc_id)
             ELSE image_path(doc_id, page_number)
        blob == [op |-> op, doc_id |-> doc_id, page_number |-> page_number]
    IN /\ CanCall(t)
       /\ files' = Put(files, p, content)
       /\ ref' = Put(ref, blob, [path |-> p, content |-> content])
       /\ task' = [task EXCEPT ![t] =
               Finished([IdleTask EXCEPT !.op = op, !.doc_id = doc_id,
                                         !.page_number = page_number,
                                         !.content = content, !.path = p], "ok")]
       /\ saved' = saved \cup {p}
       /\ ops' = ops + 1
       /\ UNCHANGED <<hashOf, locks, faults, lastAcq, lastDone>>

NextNames ==
    \E t \in Tasks, d \in SafeIds, c \in {Low, High} :
        \/ SaveAlone(t, "save_pdf", d, 0, c)
        \/ \E n \in WidePages : SaveAlone(t, "save_image", d, n, c)

SpecNames == Init /\ [][NextNames]_vars

\* C30: two different blobs (two PDFs of different doc_ids, two images that
\* differ in doc_id or page number, a PDF and an image) never have the same
\* path, and every blob saved so far still holds the content saved for it
\* last: no save of another blob has overwritten it.
C30_OnePathPerBlob ==
    /\ \A a, b \in DOMAIN ref : a # b => ref[a].path # ref[b].path
    /\ \A a \in DOMAIN ref :
           Exists(files, ref[a].path) /\ files[ref[a].path] = ref[a].content

\* Page 0 of a_p1, page 10 of a and page 0 of a1 are stored side by side.
C30_Witness ==
    LET image(d, n) == [op |-> "save_image", doc_id |-> d, page_number |-> n] IN
    /\ {image(DocAP1, 0), image(DocA, 10), image(<<"a", "1">>, 0)} \subseteq DOMAIN ref
    /\ ref[image(DocA, 10)].content # ref[image(<<"a", "1">>, 0)].content


====
